---- MODULE Spec2Model ----
(***************************************************************************)
(* A model of main.py: the Telegram handlers start, button_click and       *)
(* handle_message, the per-user mode they store in context.user_data, the  *)
(* asyncio event loop they run on, and the KRX data pipeline they call.    *)
(***************************************************************************)
EXTENDS Integers, Sequences, FiniteSets, TLC

(***************************************************************************)
(* Sizes of the model.                                                     *)
(***************************************************************************)
NumUsers == 2
NumChats == 2
\* builder.concurrent_updates(2): updates handled at the same time.
ConcurrentUpdates == 2

Users == 1..NumUsers
Chats == 1..NumChats
Tasks == 1..ConcurrentUpdates

None == "None"

(***************************************************************************)
(* Text: a sequence of characters.  str.strip() drops the white space at   *)
(* both ends.                                                              *)
(***************************************************************************)
SP == " "

RECURSIVE lstrip(_)
lstrip(s) == IF s # << >> /\ Head(s) = SP THEN lstrip(Tail(s)) ELSE s

RECURSIVE rstrip(_)
rstrip(s) ==
    IF s # << >> /\ s[Len(s)] = SP THEN rstrip(SubSeq(s, 1, Len(s) - 1)) ELSE s

strip(s) == rstrip(lstrip(s))

\* The texts a user sends.
Inputs ==
    { << >>, <<SP>>, <<SP, "A", "B", "C", SP>>, <<"A", "B", "D">>, <<"X">> }

(***************************************************************************)
(* _safe_num and _fmt_pct.  A value is None, NaN, an int, a float (given   *)
(* in thousandths), infinity, or something else with its str().  Texts     *)
(* are sequences of characters.                                            *)
(***************************************************************************)
Val(kind, n, s) == [kind |-> kind, n |-> n, s |-> s]
NoneVal == Val("none", 0, << >>)
NaN == Val("nan", 0, << >>)
IntVal(n) == Val("int", n, << >>)
FloatVal(thousandths) == Val("float", thousandths, << >>)
Inf == Val("inf", 0, << >>)
Other(s) == Val("other", 0, s)

\* The sentinel text, four Hangul syllables (jeong-bo-eop-eum).
NoInfo == <<"jeong", "bo", "eop", "eum">>

DigitChar(d) ==
    CASE d = 0 -> "0" [] d = 1 -> "1" [] d = 2 -> "2" [] d = 3 -> "3"
      [] d = 4 -> "4" [] d = 5 -> "5" [] d = 6 -> "6" [] d = 7 -> "7"
      [] d = 8 -> "8" [] d = 9 -> "9"

\* The decimal digits of n >= 0.
RECURSIVE Digits(_)
Digits(n) ==
    IF n < 10 THEN <<DigitChar(n)>>
    ELSE Append(Digits(n \div 10), DigitChar(n % 10))

\* The ',' option of a format: a comma before every three digits.
RECURSIVE Grouped(_)
Grouped(ds) ==
    IF Len(ds) <= 3 THEN ds
    ELSE Grouped(SubSeq(ds, 1, Len(ds) - 3)) \o <<",">>
         \o SubSeq(ds, Len(ds) - 2, Len(ds))

Abs(n) == IF n < 0 THEN -n ELSE n

Sign(n) == IF n < 0 THEN <<"-">> ELSE << >>

\* f"{n:,}" of an int.
format_int(n) == Sign(n) \o Grouped(Digits(Abs(n)))

\* Thousandths to hundredths, the half to the even neighbour (the floats
\* of the model that end in 5 thousandths are exact in binary).
RoundHundredths(a) ==
    IF a % 10 < 5 THEN a \div 10
    ELSE IF a % 10 > 5 THEN a \div 10 + 1
    ELSE IF (a \div 10) % 2 = 0 THEN a \div 10 ELSE a \div 10 + 1

\* f"{x:,.2f}" of a float given in thousandths.
format_2f(m) ==
    Sign(m) \o Grouped(Digits(RoundHundredths(Abs(m)) \div 100)) \o <<".">>
    \o <<DigitChar((RoundHundredths(Abs(m)) % 100) \div 10),
         DigitChar(RoundHundredths(Abs(m)) % 10)>>

\* int(val) of a float: towards zero.
int(m) == IF m < 0 THEN -((-m) \div 1000) ELSE m \div 1000

_safe_num(val) ==
    IF val.kind = "none" THEN NoInfo
    ELSE IF val.kind = "nan" THEN NoInfo
    ELSE IF val.kind = "int" THEN format_int(val.n)
    ELSE IF val.kind = "float" /\ val.n % 1000 = 0 THEN format_int(int(val.n))
    ELSE IF val.kind = "float" THEN format_2f(val.n)
    ELSE IF val.kind = "inf" THEN <<"i", "n", "f">>
    ELSE val.s

\* _fmt_pct with the sign appended to whatever _safe_num returns.
_fmt_pct_always(val) == _safe_num(val) \o <<"%">>

_fmt_pct(val) ==
    IF _safe_num(val) # NoInfo THEN _safe_num(val) \o <<"%">> ELSE _safe_num(val)

\* The values given to the formatters.
Vals ==
    { NoneVal, NaN, Inf, Other(<<"N", "/", "A">>) }
    \cup {IntVal(n) : n \in {0, 7, 999, 1000, -1234567}}
    \cup {FloatVal(m) : m \in {0, 12000, 1500, -1500, 2125, 2375, 999996,
                            1234567891, -4, 3141}}

(***************************************************************************)
(* The market-data backend (pykrx): the listings are fixed, every query    *)
(* answers as the environment record env of the call says.                 *)
(***************************************************************************)
tickers_kospi == <<"K1", "K2">>
tickers_kosdaq == <<"Q1", "Q2">>

get_market_ticker_name(code) ==
    CASE code = "K1" -> <<"A", "B", "C">>
      [] code = "K2" -> <<"D", "E">>
      [] code = "Q1" -> <<"D", "E">>
      [] code = "Q2" -> <<"F", "G">>

\* A date of the backend's index; D1 is the earlier business day.
Date(y, m, d) == y * 10000 + m * 100 + d
D1 == Date(2026, 11, 2)
D2 == Date(2026, 11, 3)

\* A row of fundamentals: its date (the index) and its columns.
Row(d, per, pbr, eps, bps, div) ==
    [date |-> d, PER |-> per, PBR |-> pbr, EPS |-> eps, BPS |-> bps, DIV |-> div]

FundRow(d) == Row(d, FloatVal(12340), FloatVal(1500), IntVal(5777), FloatVal(48000000), FloatVal(2125))
FundTables == { << >>, <<FundRow(D1), FundRow(D2)>> }
PriceTables == { << >>, <<[close |-> <<70000>>]>> }

Raise == "raise"

\* The answer to a query: it raises, or it returns a table.
Raises == [raises |-> TRUE, table |-> << >>]
Returns(table) == [raises |-> FALSE, table |-> table]

\* What the backend answers to the queries of one get_krx_real_data call.
KrxEnvs ==
    [ kospi : {"ok", Raise}, kosdaq : {"ok", Raise},
      fund : {Raises} \cup {Returns(tb) : tb \in FundTables},
      ohlcv : {Raises} \cup {Returns(tb) : tb \in PriceTables},
      ohlcv_by_date : {Raises} \cup {Returns(tb) : tb \in PriceTables} ]

(***************************************************************************)
(* difflib.get_close_matches(word, possibilities, n=5, cutoff=0.6)         *)
(***************************************************************************)
\* Length of the common run of a from i and b from j.
RECURSIVE RunLen(_, _, _, _)
RunLen(a, b, i, j) ==
    IF i <= Len(a) /\ j <= Len(b) /\ a[i] = b[j]
    THEN 1 + RunLen(a, b, i + 1, j + 1) ELSE 0

\* SequenceMatcher.find_longest_match: the longest run, the earliest in a,
\* and of those the earliest in b.
find_longest_match(a, b) ==
    LET P == (1..Len(a)) \X (1..Len(b))
        run == [p \in P |-> RunLen(a, b, p[1], p[2])]
        best == CHOOSE p \in P :
                  \A q \in P :
                     \/ run[p] > run[q]
                     \/ /\ run[p] = run[q]
                        /\ \/ p[1] < q[1]
                           \/ p[1] = q[1] /\ p[2] <= q[2]
    IN  IF P = {} THEN <<1, 1, 0>> ELSE <<best[1], best[2], run[best]>>

\* The number of matching characters: the longest run, then the same to
\* the left and to the right of it.
RECURSIVE Matches(_, _)
AroundMatch(a, b, m) ==
    IF m[3] = 0 THEN 0
    ELSE m[3]
         + Matches(SubSeq(a, 1, m[1] - 1), SubSeq(b, 1, m[2] - 1))
         + Matches(SubSeq(a, m[1] + m[3], Len(a)), SubSeq(b, m[2] + m[3], Len(b)))

Matches(a, b) == AroundMatch(a, b, find_longest_match(a, b))

\* ratio() >= 0.6, with ratio = 2.0 * matches / (len(a) + len(b)).
CloseEnough(word, x) ==
    /\ Len(word) + Len(x) > 0
    /\ 10 * 2 * Matches(x, word) >= 6 * (Len(word) + Len(x))

\* The score of x, in tenths of a percent, to order the candidates.
Score(word, x) == (2000 * Matches(x, word)) \div (Len(word) + Len(x))

Ord(c) ==
    CASE c = SP -> 32 [] c = "A" -> 65 [] c = "B" -> 66 [] c = "C" -> 67
      [] c = "D" -> 68 [] c = "E" -> 69 [] c = "F" -> 70 [] c = "G" -> 71
      [] c = "X" -> 88

\* s < t as Python orders strings.
RECURSIVE StrLess(_, _)
StrLess(s, t) ==
    IF t = << >> THEN FALSE
    ELSE IF s = << >> THEN TRUE
    ELSE IF Ord(Head(s)) # Ord(Head(t)) THEN Ord(Head(s)) < Ord(Head(t))
    ELSE StrLess(Tail(s), Tail(t))

\* The names in the order of heapq.nlargest on (score, x): the higher
\* score first, then the greater string, then the earlier one.
SortedCandidates(word, names) ==
    LET score == [i \in 1..Len(names) |-> Score(word, names[i])]
        Before(i, j) ==
            \/ score[i] > score[j]
            \/ /\ score[i] = score[j]
               /\ \/ StrLess(names[j], names[i])
                  \/ names[i] = names[j] /\ i < j
        rank == [i \in 1..Len(names) |->
                    1 + Cardinality({j \in 1..Len(names) : Before(j, i)})]
    IN  [r \in 1..Len(names) |-> names[CHOOSE i \in 1..Len(names) : rank[i] = r]]

get_close_matches(word, possibilities) ==
    LET close == SelectSeq(possibilities, LAMBDA x : CloseEnough(word, x))
        sorted == SortedCandidates(word, close)
    IN  SubSeq(sorted, 1, IF Len(sorted) < 5 THEN Len(sorted) ELSE 5)

(***************************************************************************)
(* find_ticker_code: <<code, market, hint>>                                *)
(***************************************************************************)
NoNames == << >>

Hint(msg, names) == [msg |-> msg, names |-> names]
NoHint == Hint(None, NoNames)

\* The first code of the list whose name is the given one, or None.
RECURSIVE ScanExact(_, _)
ScanExact(codes, stock_name) ==
    IF codes = << >> THEN None
    ELSE IF get_market_ticker_name(Head(codes)) = stock_name THEN Head(codes)
    ELSE ScanExact(Tail(codes), stock_name)

NameList(codes) == [i \in 1..Len(codes) |-> get_market_ticker_name(codes[i])]

find_ticker_code(raw_name, env) ==
    LET stock_name == strip(raw_name)
        in_kospi == ScanExact(tickers_kospi, stock_name)
        in_kosdaq == ScanExact(tickers_kosdaq, stock_name)
        all_names == NameList(tickers_kospi \o tickers_kosdaq)
        candidates == get_close_matches(stock_name, all_names)
    IN  IF stock_name = << >>
        THEN <<None, None, Hint("enter_exact_name", NoNames)>>
        ELSE IF env.kospi = Raise \/ env.kosdaq = Raise
        THEN <<None, None, Hint("ticker_search_error", NoNames)>>
        ELSE IF in_kospi # None THEN <<in_kospi, "KOSPI", NoHint>>
        ELSE IF in_kosdaq # None THEN <<in_kosdaq, "KOSDAQ", NoHint>>
        ELSE IF candidates # << >>
        THEN <<None, None, Hint("did_you_mean", candidates)>>
        ELSE <<None, None, Hint("enter_registered_name", NoNames)>>

(***************************************************************************)
(* get_latest_fundamental_and_price: (row, found_date, price), or raises   *)
(***************************************************************************)
\* An optional value is << >> (None) or <<v>>.
Absent == << >>

\* strftime("%Y-%m-%d"): the year, month and day of the text.
strftime_dashed(date) == <<date \div 10000, (date \div 100) % 100, date % 100>>

\* found_date.replace("-", ""): the text YYYYMMDD, as the number it reads.
remove_dashes(found_date) ==
    found_date[1] * 10000 + found_date[2] * 100 + found_date[3]

\* _get_ohlcv_by_date: get_market_ohlcv, and get_market_ohlcv_by_date when
\* that raises.
_get_ohlcv_by_date(env) ==
    IF ~env.ohlcv.raises THEN env.ohlcv ELSE env.ohlcv_by_date

Fetched(raised, row, found_date, dstr, price) ==
    [raised |-> raised, row |-> row, found_date |-> found_date,
     price_query |-> dstr, price |-> price]

get_latest_fundamental_and_price(ticker, env) ==
    IF env.fund.raises
    THEN Fetched(TRUE, Absent, Absent, Absent, Absent)
    ELSE LET df_fund == env.fund.table
             recent_row == df_fund[Len(df_fund)]
             found_date == strftime_dashed(recent_row.date)
             dstr == remove_dashes(found_date)
             df_price == _get_ohlcv_by_date(env)
         IN  IF df_fund = << >>
             THEN Fetched(FALSE, Absent, Absent, Absent, Absent)
             ELSE IF df_price.raises
             THEN Fetched(TRUE, Absent, Absent, <<dstr>>, Absent)
             ELSE Fetched(FALSE, <<recent_row>>, found_date, <<dstr>>,
                          IF df_price.table = << >> THEN Absent
                          ELSE df_price.table[1].close)

(***************************************************************************)
(* build_stock_info_text and get_krx_real_data: (code, text)               *)
(***************************************************************************)
\* A text shown to the user: the data block of a stock, or a message.
Text(kind, msg, names, stock_name, code, market, found_date, price_s, fields) ==
    [kind |-> kind, msg |-> msg, names |-> names, stock_name |-> stock_name,
     code |-> code, market |-> market, found_date |-> found_date,
     price_s |-> price_s, fields |-> fields]

\* per, pbr, eps, bps and div as the data block shows them.
Fields(per, pbr, eps, bps, div) ==
    [per |-> per, pbr |-> pbr, eps |-> eps, bps |-> bps, div |-> div]

NoFields == Fields(<< >>, << >>, << >>, << >>, << >>)

Message(msg, names) ==
    Text("message", msg, names, << >>, None, None, Absent, None, NoFields)

NoText == Message(None, NoNames)

build_stock_info_text(stock_name, ticker, market, row, found_date, price) ==
    Text("stock_info", None, NoNames, stock_name, ticker, market, found_date,
         IF price = Absent THEN "unavailable" ELSE "price",
         Fields(_safe_num(row.PER), _safe_num(row.PBR), _safe_num(row.EPS),
                _safe_num(row.BPS), _fmt_pct(row.DIV)))

\* The result, with the components that ran for it.
KrxResult(code, text, steps) == [code |-> code, text |-> text, steps |-> steps]

get_krx_real_data(stock_name, env) ==
    LET found == find_ticker_code(stock_name, env)
        code == found[1]
        market == found[2]
        hint == found[3]
        got == get_latest_fundamental_and_price(code, env)
    IN  IF code = None
        THEN KrxResult(None, Message(hint.msg, hint.names), <<"resolver">>)
        ELSE IF got.raised
        THEN KrxResult(None, Message("krx_connection_error", NoNames),
                       <<"resolver", "fetcher">>)
        ELSE IF got.row = Absent
        THEN KrxResult(code, Message("no_recent_data", NoNames),
                       <<"resolver", "fetcher">>)
        ELSE KrxResult(code,
                       build_stock_info_text(stock_name, code, market,
                           got.row[1], got.found_date, got.price),
                       <<"resolver", "fetcher", "formatter">>)

(***************************************************************************)
(* get_recent_index_close, make_daily_chart_image, _genai_text and         *)
(* get_marketmap_element_screenshot, by what the environment answers.      *)
(***************************************************************************)
\* The index query of each day back: the value of the first day with data.
IndexEnvs == {Raise, "empty", "close"}

get_recent_index_close(env) ==
    [raised |-> env = Raise, kospi_val |-> IF env = "close" THEN <<2500>> ELSE Absent]

ChartEnvs == [ohlcv : {Raise, "empty", "data"}, candle : BOOLEAN, line : BOOLEAN]

\* Image bytes, or None: the candlestick plot first, the line plot when it
\* fails, None when the data is empty or anything else raises.
make_daily_chart_image(env) ==
    IF env.ohlcv = Raise THEN None
    ELSE IF env.ohlcv = "empty" THEN None
    ELSE IF env.candle THEN "png"
    ELSE IF env.line THEN "png"
    ELSE None

\* model.generate_content in a worker thread: its text, or the error text.
GenaiEnvs == {"text", Raise}

_genai_text(env) == IF env = Raise THEN "ai_error_text" ELSE "ai_text"

\* The element's JPEG, or None on any failure.
SnapshotEnvs == {"jpeg", "no_playwright", "no_element", "error"}

get_marketmap_element_screenshot(market, env) ==
    IF env = "jpeg" THEN "jpeg" ELSE None

(***************************************************************************)
(* The state: the mode of each user (context.user_data['mode']), the       *)
(* update each handler task is working on with its local variables, and    *)
(* the task that holds the event loop inside a blocking call (0: none).    *)
(* frame is the call of a function that is followed on its own, line by    *)
(* line; the handlers leave it alone.                                      *)
(***************************************************************************)
\* What get_krx_real_data can return for each stripped input, over all
\* the answers of the backend.
KrxOutcomes ==
    [i \in {strip(x) : x \in Inputs} |->
        {get_krx_real_data(i, env) : env \in KrxEnvs}]

ChartOutcomes == {make_daily_chart_image(env) : env \in ChartEnvs}

VARIABLES mode, task, loop, frame

vars == <<mode, task, loop, frame>>

Unset == "unset"

Modes == {None, "btn_analysis", "btn_market"}

ButtonData == {"btn_analysis", "btn_market", "map_kospi", "map_kosdaq"}

\* context.user_data.get('mode') in an update of the user in the chat:
\* user_data is the dictionary of the user.
ModeOf(user, chat) == mode[user]

\* A handler task with its local variables, before its first line.
NewTask(kind, data, user, chat) ==
    [pc |-> "begin", kind |-> kind, data |-> data, user |-> user, chat |-> chat,
     mode |-> Unset, user_input |-> << >>, code |-> None,
     stock_info |-> NoText, chart_bytes |-> None, img |-> None,
     ai_text |-> None, out |-> << >>, calls |-> << >>]

\* No handler yet.
NoTask == [NewTask(None, None, 1, 1) EXCEPT !.pc = "free"]

\* The slot is free: no handler yet, the handler returned ("done"), or an
\* exception ended it ("failed": error_handler logs it, nothing is sent).
Ended == {"free", "done", "failed"}

\* No function is followed.
NoFrame == [fn |-> None, pc |-> "none"]

Init ==
    /\ mode = [u \in Users |-> None]
    /\ task = [t \in Tasks |-> NoTask]
    /\ loop = 0
    /\ frame = NoFrame

\* A message that reached the chat.
Sent(type, text) == [type |-> type, text |-> text]

\* The message that the bot call awaited at tk.pc puts into the chat.
Awaited(tk) ==
    CASE tk.pc = "send_home_menu" -> Sent("HomeMenu", NoText)
      [] tk.pc = "prompt_edit" -> Sent("Prompt", NoText)
      [] tk.pc = "market_edit" -> Sent("MarketProgress", NoText)
      [] tk.pc = "market_send" -> Sent("MarketReport", Message(tk.ai_text, NoNames))
      [] tk.pc = "map_edit" -> Sent("MapProgress", NoText)
      [] tk.pc = "map_photo" -> Sent("MapPhoto", Message("url", NoNames))
      [] tk.pc = "map_link" -> Sent("MapLink", Message("url", NoNames))
      [] tk.pc = "map_photo_failed" -> Sent("MapLink", Message("url", NoNames))
      [] tk.pc = "reply_text" -> Sent("Progress", NoText)
      [] tk.pc = "error_edit" -> Sent("ErrorText", tk.stock_info)
      [] tk.pc = "ack_edit" -> Sent("Ack", tk.stock_info)
      [] tk.pc = "chart_photo" -> Sent("Chart", NoText)
      [] tk.pc = "chart_failed" -> Sent("ChartFailed", NoText)
      [] tk.pc = "report_send" -> Sent("Report", Message(tk.ai_text, NoNames))

\* The task after the awaited bot call returned: the message is out.
Delivered(tk) == [tk EXCEPT !.out = Append(@, Awaited(tk))]

At(tk, pc) == [tk EXCEPT !.pc = pc]

Called(tk, what) == [tk EXCEPT !.calls = Append(@, what)]

\* Application.process_update hands an update to its handler while fewer
\* than ConcurrentUpdates are being handled; the handler runs on the event
\* loop up to its first await.
Dispatchable(t) == loop = 0 /\ task[t].pc \in Ended

\* The handler of task t resumes after an await.
Resumes(t, pc) == loop = 0 /\ task[t].pc = pc

\* The awaited bot call returned, its message is out, and the handler
\* returns: its local variables are gone.
Returns_(t) == task' = [task EXCEPT ![t] = At(NoTask, "done")]

\* An awaited call raised and nothing caught it.
Fails(t) == task' = [task EXCEPT ![t] = At(NoTask, "failed")]

(***************************************************************************)
(* send_home_menu: the awaited bot.send_message of the menu; every caller  *)
(* returns after it.                                                       *)
(***************************************************************************)
send_home_menu(t) ==
    /\ Resumes(t, "send_home_menu")
    /\ \/ Returns_(t)
       \/ Fails(t)
    /\ UNCHANGED <<mode, loop>>
    /\ UNCHANGED frame

(***************************************************************************)
(* start                                                                   *)
(***************************************************************************)
\* start with the menu sent before the mode is written: the handler is at
\* the awaited send with the mode as it was.
start_menu_first(t) ==
    /\ Dispatchable(t)
    /\ \E user \in Users, chat \in Chats :
          task' = [task EXCEPT ![t] =
                At(NewTask("start", None, user, chat), "send_home_menu")]
    /\ UNCHANGED <<mode, loop>>
    /\ UNCHANGED frame

\* start with one mode for the whole bot instead of one per user.
start_one_mode_for_all(t) ==
    /\ Dispatchable(t)
    /\ \E user \in Users, chat \in Chats :
          /\ mode' = [u \in Users |-> None]
          /\ task' = [task EXCEPT ![t] =
                At(NewTask("start", None, user, chat), "send_home_menu")]
    /\ UNCHANGED loop
    /\ UNCHANGED frame

start(t) ==
    /\ Dispatchable(t)
    /\ \E user \in Users, chat \in Chats :
          /\ mode' = [mode EXCEPT ![user] = None]
          /\ task' = [task EXCEPT ![t] =
                At(NewTask("start", None, user, chat), "send_home_menu")]
    /\ UNCHANGED loop
    /\ UNCHANGED frame

(***************************************************************************)
(* button_click                                                            *)
(***************************************************************************)
\* Up to the awaited query.answer().
button_click(t) ==
    /\ Dispatchable(t)
    /\ \E data \in ButtonData, user \in Users, chat \in Chats :
          task' = [task EXCEPT ![t] = At(NewTask("button", data, user, chat), "answer")]
    /\ UNCHANGED <<mode, loop>>
    /\ UNCHANGED frame

button_answer_failed(t) ==
    /\ Resumes(t, "answer")
    /\ Fails(t)
    /\ UNCHANGED <<mode, loop>>
    /\ UNCHANGED frame

\* query.data == 'btn_analysis': the mode, then the awaited prompt.
button_analysis(t) ==
    /\ Resumes(t, "answer")
    /\ task[t].data = "btn_analysis"
    /\ mode' = [mode EXCEPT ![task[t].user] = "btn_analysis"]
    /\ task' = [task EXCEPT ![t] = At(@, "prompt_edit")]
    /\ UNCHANGED loop
    /\ UNCHANGED frame

button_analysis_prompted(t) ==
    /\ Resumes(t, "prompt_edit")
    /\ \/ Returns_(t)
       \/ Fails(t)
    /\ UNCHANGED <<mode, loop>>
    /\ UNCHANGED frame

\* query.data == 'btn_market': the mode, then the awaited progress text.
button_market(t) ==
    /\ Resumes(t, "answer")
    /\ task[t].data = "btn_market"
    /\ mode' = [mode EXCEPT ![task[t].user] = "btn_market"]
    /\ task' = [task EXCEPT ![t] = At(@, "market_edit")]
    /\ UNCHANGED loop
    /\ UNCHANGED frame

\* The progress text is out; get_recent_index_close is called in the
\* coroutine itself, so the event loop is held until it returns.
button_market_index_call(t) ==
    /\ Resumes(t, "market_edit")
    /\ \/ /\ task' = [task EXCEPT ![t] =
                 Called(At(Delivered(@), "index_call"),
                        "index")]
          /\ loop' = t
       \/ /\ Fails(t)
          /\ loop' = loop
    /\ UNCHANGED mode
    /\ UNCHANGED frame

\* get_recent_index_close returned (or raised: nothing catches it); the
\* prompt goes to _genai_text, which awaits a worker thread.
button_market_index_return(t) ==
    /\ loop = t
    /\ task[t].pc = "index_call"
    /\ \E env \in IndexEnvs :
          LET r == get_recent_index_close(env)
          IN  IF r.raised THEN Fails(t)
              ELSE task' = [task EXCEPT ![t] =
                     Called(
                       [@ EXCEPT !.pc = "market_genai",
                                 !.stock_info =
                                     IF r.kospi_val # Absent
                                     THEN Message("kospi_index", NoNames)
                                     ELSE Message("index_lookup_failed", NoNames)],
                       "composer")]
    /\ loop' = 0
    /\ UNCHANGED mode
    /\ UNCHANGED frame

button_market_genai_done(t) ==
    /\ Resumes(t, "market_genai")
    /\ \E env \in GenaiEnvs :
          task' = [task EXCEPT ![t] =
                      [@ EXCEPT !.pc = "market_send", !.ai_text = _genai_text(env)]]
    /\ UNCHANGED <<mode, loop>>
    /\ UNCHANGED frame

button_market_sent(t) ==
    /\ Resumes(t, "market_send")
    /\ \/ task' = [task EXCEPT ![t] =
              At(Delivered(@),
                 "send_home_menu")]
       \/ Fails(t)
    /\ UNCHANGED <<mode, loop>>
    /\ UNCHANGED frame

\* The map branch storing its button as the mode, as the other two do.
button_map_stores_mode(t) ==
    /\ Resumes(t, "answer")
    /\ task[t].data \in {"map_kospi", "map_kosdaq"}
    /\ mode' = [mode EXCEPT ![task[t].user] = task[t].data]
    /\ task' = [task EXCEPT ![t] = At(@, "map_edit")]
    /\ UNCHANGED loop
    /\ UNCHANGED frame

\* query.data in ('map_kospi', 'map_kosdaq'): the awaited progress text.
button_map(t) ==
    /\ Resumes(t, "answer")
    /\ task[t].data \in {"map_kospi", "map_kosdaq"}
    /\ task' = [task EXCEPT ![t] = At(@, "map_edit")]
    /\ UNCHANGED <<mode, loop>>
    /\ UNCHANGED frame

\* The progress text is out; the snapshot coroutine awaits the browser.
button_map_snapshot_call(t) ==
    /\ Resumes(t, "map_edit")
    /\ \/ task' = [task EXCEPT ![t] =
              Called(At(Delivered(@), "snapshot"), "snapshot")]
       \/ Fails(t)
    /\ UNCHANGED <<mode, loop>>
    /\ UNCHANGED frame

MarketOf(data) == IF data = "map_kospi" THEN "KOSPI" ELSE "KOSDAQ"

\* if img: send_photo, else: the link.
button_map_snapshot_done(t) ==
    /\ Resumes(t, "snapshot")
    /\ \E env \in SnapshotEnvs :
          LET img == get_marketmap_element_screenshot(MarketOf(task[t].data), env)
          IN  task' = [task EXCEPT ![t] =
                  [@ EXCEPT !.img = img,
                            !.pc = IF img # None THEN "map_photo" ELSE "map_link"]]
    /\ UNCHANGED <<mode, loop>>
    /\ UNCHANGED frame

\* send_photo, and the link by send_message when it raises.
button_map_photo_done(t) ==
    /\ Resumes(t, "map_photo")
    /\ \/ task' = [task EXCEPT ![t] =
              At(Delivered(@), "send_home_menu")]
       \/ task' = [task EXCEPT ![t] = At(@, "map_photo_failed")]
    /\ UNCHANGED <<mode, loop>>
    /\ UNCHANGED frame

button_map_link_done(t) ==
    /\ \/ Resumes(t, "map_link")
       \/ Resumes(t, "map_photo_failed")
    /\ \/ task' = [task EXCEPT ![t] =
              At(Delivered(@), "send_home_menu")]
       \/ Fails(t)
    /\ UNCHANGED <<mode, loop>>
    /\ UNCHANGED frame

(***************************************************************************)
(* handle_message                                                          *)
(***************************************************************************)
\* handle_message with "if mode is None" as its test for idle.
handle_message_idle_is_none(t) ==
    /\ Dispatchable(t)
    /\ \E text \in Inputs, user \in Users, chat \in Chats :
          task' = [task EXCEPT ![t] =
              [NewTask("text", None, user, chat) EXCEPT
                  !.mode = ModeOf(user, chat),
                  !.user_input = strip(text),
                  !.pc = IF ModeOf(user, chat) = None
                         THEN "send_home_menu" ELSE "reply_text"]]
    /\ UNCHANGED <<mode, loop>>
    /\ UNCHANGED frame

\* The mode and the text are read; any mode but 'btn_analysis' shows the
\* menu and returns, 'btn_analysis' awaits the progress reply.
handle_message(t) ==
    /\ Dispatchable(t)
    /\ \E text \in Inputs, user \in Users, chat \in Chats :
          task' = [task EXCEPT ![t] =
              [NewTask("text", None, user, chat) EXCEPT
                  !.mode = ModeOf(user, chat),
                  !.user_input = strip(text),
                  !.pc = IF ModeOf(user, chat) # "btn_analysis"
                         THEN "send_home_menu" ELSE "reply_text"]]
    /\ UNCHANGED <<mode, loop>>
    /\ UNCHANGED frame

\* The progress reply is out; get_krx_real_data is called in the
\* coroutine itself, so the event loop is held until it returns.
handle_message_krx_call(t) ==
    /\ Resumes(t, "reply_text")
    /\ \/ /\ task' = [task EXCEPT ![t] =
                 Called(At(Delivered(@), "krx_call"),
                        "get_krx_real_data")]
          /\ loop' = t
       \/ /\ Fails(t)
          /\ loop' = loop
    /\ UNCHANGED mode
    /\ UNCHANGED frame

\* get_krx_real_data returned, and the handler goes on without the test
\* of the code.
handle_message_krx_return_no_test(t) ==
    /\ loop = t
    /\ task[t].pc = "krx_call"
    /\ \E r \in KrxOutcomes[task[t].user_input] :
          task' = [task EXCEPT ![t] =
              [@ EXCEPT !.code = r.code,
                        !.stock_info = r.text,
                        !.calls = @ \o r.steps,
                        !.pc = "ack_edit"]]
    /\ loop' = 0
    /\ UNCHANGED mode
    /\ UNCHANGED frame

\* get_krx_real_data returned; if not code: the text is edited in and the
\* handler returns, else the acknowledgment is edited in.
handle_message_krx_return(t) ==
    /\ loop = t
    /\ task[t].pc = "krx_call"
    /\ \E r \in KrxOutcomes[task[t].user_input] :
          task' = [task EXCEPT ![t] =
              [@ EXCEPT !.code = r.code,
                        !.stock_info = r.text,
                        !.calls = @ \o r.steps,
                        !.pc = IF r.code = None THEN "error_edit" ELSE "ack_edit"]]
    /\ loop' = 0
    /\ UNCHANGED mode
    /\ UNCHANGED frame

handle_message_error_edited(t) ==
    /\ Resumes(t, "error_edit")
    /\ \/ Returns_(t)
       \/ Fails(t)
    /\ UNCHANGED <<mode, loop>>
    /\ UNCHANGED frame

\* The acknowledgment is out; make_daily_chart_image runs in a worker
\* thread.
handle_message_chart_call(t) ==
    /\ Resumes(t, "ack_edit")
    /\ \/ task' = [task EXCEPT ![t] =
              Called(At(Delivered(@), "chart"), "chart")]
       \/ Fails(t)
    /\ UNCHANGED <<mode, loop>>
    /\ UNCHANGED frame

\* The chart step without its else branch: no chart, no message.
handle_message_chart_done_no_else(t) ==
    /\ Resumes(t, "chart")
    /\ \E chart_bytes \in ChartOutcomes :
          task' = [task EXCEPT ![t] =
              IF chart_bytes # None
              THEN [@ EXCEPT !.chart_bytes = chart_bytes, !.pc = "chart_photo"]
              ELSE Called([@ EXCEPT !.chart_bytes = chart_bytes,
                                    !.pc = "report_genai"], "composer")]
    /\ UNCHANGED <<mode, loop>>
    /\ UNCHANGED frame

\* if chart_bytes: send_photo, else: the chart-failed message.
handle_message_chart_done(t) ==
    /\ Resumes(t, "chart")
    /\ \E chart_bytes \in ChartOutcomes :
          task' = [task EXCEPT ![t] =
              [@ EXCEPT !.chart_bytes = chart_bytes,
                        !.pc = IF chart_bytes # None THEN "chart_photo"
                               ELSE "chart_failed"]]
    /\ UNCHANGED <<mode, loop>>
    /\ UNCHANGED frame

\* The chart is out; the report prompt goes to _genai_text.
handle_message_chart_sent(t) ==
    /\ Resumes(t, "chart_photo")
    /\ \/ task' = [task EXCEPT ![t] =
              Called(At(Delivered(@), "report_genai"), "composer")]
       \/ Fails(t)
    /\ UNCHANGED <<mode, loop>>
    /\ UNCHANGED frame

handle_message_chart_failed_sent(t) ==
    /\ Resumes(t, "chart_failed")
    /\ \/ task' = [task EXCEPT ![t] =
              Called(At(Delivered(@), "report_genai"), "composer")]
       \/ Fails(t)
    /\ UNCHANGED <<mode, loop>>
    /\ UNCHANGED frame

handle_message_genai_done(t) ==
    /\ Resumes(t, "report_genai")
    /\ \E env \in GenaiEnvs :
          task' = [task EXCEPT ![t] =
                      [@ EXCEPT !.pc = "report_send", !.ai_text = _genai_text(env)]]
    /\ UNCHANGED <<mode, loop>>
    /\ UNCHANGED frame

\* The report is out; the menu follows.
handle_message_report_sent(t) ==
    /\ Resumes(t, "report_send")
    /\ \/ task' = [task EXCEPT ![t] =
              At(Delivered(@), "send_home_menu")]
       \/ Fails(t)
    /\ UNCHANGED <<mode, loop>>
    /\ UNCHANGED frame

(***************************************************************************)
(* The event loop runs one step of one handler at a time.                  *)
(***************************************************************************)
Next ==
    \E t \in Tasks :
       \/ send_home_menu(t)
       \/ start(t)
       \/ button_click(t)
       \/ button_answer_failed(t)
       \/ button_analysis(t)
       \/ button_analysis_prompted(t)
       \/ button_market(t)
       \/ button_market_index_call(t)
       \/ button_market_index_return(t)
       \/ button_market_genai_done(t)
       \/ button_market_sent(t)
       \/ button_map(t)
       \/ button_map_snapshot_call(t)
       \/ button_map_snapshot_done(t)
       \/ button_map_photo_done(t)
       \/ button_map_link_done(t)
       \/ handle_message(t)
       \/ handle_message_krx_call(t)
       \/ handle_message_krx_return(t)
       \/ handle_message_error_edited(t)
       \/ handle_message_chart_call(t)
       \/ handle_message_chart_done(t)
       \/ handle_message_chart_sent(t)
       \/ handle_message_chart_failed_sent(t)
       \/ handle_message_genai_done(t)
       \/ handle_message_report_sent(t)

Spec == Init /\ [][Next]_vars

(***************************************************************************)
(* The functions of the pipeline, each followed on its own from its call   *)
(* to its return: frame holds the function, its argument, what the         *)
(* environment answers, its local variables, the calls it has made and,    *)
(* at pc "return", its result.                                             *)
(***************************************************************************)
Handlers_idle ==
    /\ mode = [u \in Users |-> None]
    /\ task = [t \in Tasks |-> NoTask]
    /\ loop = 0

\* A call to the backend or to a library, with its argument.
Call(api, arg) == [api |-> api, arg |-> arg]

Makes(fr, api, arg) == [fr EXCEPT !.calls = Append(@, Call(api, arg))]

Return(fr, ret) == [fr EXCEPT !.pc = "return", !.ret = ret]

(***************************************************************************)
(* find_ticker_code(stock_name)                                            *)
(***************************************************************************)
\* The argument: None (Absent) or a text.
NameArgs ==
    {Absent} \cup {<<x>> : x \in Inputs \cup
                       { <<SP, SP>>, <<"D", "E">>, <<"D", "E", SP>>,
                         <<"F", "G">>, <<"D", "G">> }}

ListEnvs == [kospi : {"ok", Raise}, kosdaq : {"ok", Raise}]

\* (stock_name or "")
or_empty(stock_name) == IF stock_name = Absent THEN << >> ELSE stock_name[1]

find_ticker_code_frames ==
    { [fn |-> "find_ticker_code", pc |-> "begin", arg |-> a, env |-> e,
       stock_name |-> << >>, i |-> 0, calls |-> << >>, ret |-> << >>]
      : a \in NameArgs, e \in ListEnvs }

In(fn, pc) == frame.fn = fn /\ frame.pc = pc

\* find_ticker_code with the test for an empty name on the argument as
\* given, before it is stripped.
find_ticker_code_begin_unstripped ==
    /\ In("find_ticker_code", "begin")
    /\ frame' =
         IF or_empty(frame.arg) = << >>
         THEN Return(frame, <<None, None, Hint("enter_exact_name", NoNames)>>)
         ELSE [frame EXCEPT !.stock_name = strip(or_empty(frame.arg)),
                            !.pc = "kospi_list"]
    /\ UNCHANGED <<mode, task, loop>>

\* stock_name = (stock_name or "").strip(); if not stock_name: return.
find_ticker_code_begin ==
    /\ In("find_ticker_code", "begin")
    /\ frame' =
         IF strip(or_empty(frame.arg)) = << >>
         THEN Return(frame, <<None, None, Hint("enter_exact_name", NoNames)>>)
         ELSE [frame EXCEPT !.stock_name = strip(or_empty(frame.arg)),
                            !.pc = "kospi_list"]
    /\ UNCHANGED <<mode, task, loop>>

\* except Exception: the ticker search error.
find_ticker_code_except(fr) ==
    Return(fr, <<None, None, Hint("ticker_search_error", NoNames)>>)

\* tickers_kospi = stock.get_market_ticker_list(market="KOSPI")
find_ticker_code_kospi_list ==
    /\ In("find_ticker_code", "kospi_list")
    /\ frame' =
         IF frame.env.kospi = Raise
         THEN find_ticker_code_except(Makes(frame, "get_market_ticker_list", "KOSPI"))
         ELSE [Makes(frame, "get_market_ticker_list", "KOSPI")
                  EXCEPT !.pc = "kosdaq_list"]
    /\ UNCHANGED <<mode, task, loop>>

\* tickers_kosdaq = stock.get_market_ticker_list(market="KOSDAQ")
find_ticker_code_kosdaq_list ==
    /\ In("find_ticker_code", "kosdaq_list")
    /\ frame' =
         IF frame.env.kosdaq = Raise
         THEN find_ticker_code_except(Makes(frame, "get_market_ticker_list", "KOSDAQ"))
         ELSE [Makes(frame, "get_market_ticker_list", "KOSDAQ")
                  EXCEPT !.pc = "for_kospi", !.i = 1]
    /\ UNCHANGED <<mode, task, loop>>

\* One turn of a loop "for code in tickers: if name(code) == stock_name:
\* return code, market, None"; after the last code, on to pc next.
ScanTurn(fr, tickers, market, next) ==
    IF fr.i > Len(tickers) THEN [fr EXCEPT !.pc = next, !.i = 1]
    ELSE IF get_market_ticker_name(tickers[fr.i]) = fr.stock_name
    THEN Return(Makes(fr, "get_market_ticker_name", tickers[fr.i]),
                <<tickers[fr.i], market, NoHint>>)
    ELSE [Makes(fr, "get_market_ticker_name", tickers[fr.i]) EXCEPT !.i = @ + 1]

\* The loops with the secondary market scanned first.
find_ticker_code_for_kospi_second ==
    /\ In("find_ticker_code", "for_kospi")
    /\ frame' = ScanTurn(frame, tickers_kosdaq, "KOSDAQ", "for_kosdaq")
    /\ UNCHANGED <<mode, task, loop>>

find_ticker_code_for_kospi ==
    /\ In("find_ticker_code", "for_kospi")
    /\ frame' = ScanTurn(frame, tickers_kospi, "KOSPI", "for_kosdaq")
    /\ UNCHANGED <<mode, task, loop>>

find_ticker_code_for_kosdaq ==
    /\ In("find_ticker_code", "for_kosdaq")
    /\ frame' = ScanTurn(frame, tickers_kosdaq, "KOSDAQ", "all_names")
    /\ UNCHANGED <<mode, task, loop>>

\* all_names, with the name of every code looked up again.
RECURSIVE LookedUp(_, _)
LookedUp(fr, codes) ==
    IF codes = << >> THEN fr
    ELSE LookedUp(Makes(fr, "get_market_ticker_name", Head(codes)), Tail(codes))

\* candidates = get_close_matches(stock_name, all_names, n=5, cutoff=0.6)
find_ticker_code_candidates ==
    /\ In("find_ticker_code", "all_names")
    /\ frame' =
         Return(
           LookedUp(frame, tickers_kospi \o tickers_kosdaq),
           IF get_close_matches(frame.stock_name,
                                NameList(tickers_kospi \o tickers_kosdaq)) # << >>
           THEN <<None, None,
                  Hint("did_you_mean",
                       get_close_matches(frame.stock_name,
                           NameList(tickers_kospi \o tickers_kosdaq)))>>
           ELSE <<None, None, Hint("enter_registered_name", NoNames)>>)
    /\ UNCHANGED <<mode, task, loop>>

(***************************************************************************)
(* get_latest_fundamental_and_price(ticker), with _get_ohlcv_by_date       *)
(***************************************************************************)
\* The business days of the lookback window that have rows, the earliest
\* first, and the window itself: 14 days up to today.
D0 == Date(2026, 10, 30)
Window == <<Date(2026, 10, 21), Date(2026, 11, 4)>>

Row0 == Row(D0, NaN, NoneVal, IntVal(0), FloatVal(-1500), NaN)
Row1 == FundRow(D1)
Row2 == Row(D2, FloatVal(999996), FloatVal(2375), IntVal(-1234567), Inf, NoneVal)

\* The tables the backend returns: rows in the order of their dates.
FetchFundTables ==
    { << >>, <<Row0>>, <<Row1>>, <<Row2>>, <<Row0, Row1>>, <<Row0, Row2>>,
      <<Row1, Row2>>, <<Row0, Row1, Row2>> }

\* A price row may lack the close column.
FetchPriceTables == PriceTables \cup { <<[close |-> Absent]>> }

FetchEnvs ==
    [ fund : {Raises} \cup {Returns(tb) : tb \in FetchFundTables},
      ohlcv : {Raises} \cup {Returns(tb) : tb \in FetchPriceTables},
      ohlcv_by_date : {Raises} \cup {Returns(tb) : tb \in FetchPriceTables} ]

get_latest_fundamental_and_price_frames ==
    { [fn |-> "get_latest_fundamental_and_price", pc |-> "begin",
       arg |-> "K1", env |-> e, recent_row |-> Absent, found_date |-> Absent,
       dstr |-> 0, calls |-> << >>, ret |-> << >>]
      : e \in FetchEnvs }

\* An exception leaves the function.
Propagates(fr) == [fr EXCEPT !.pc = "raise"]

\* The fundamentals query with the first row of the table taken.
get_latest_fundamental_and_price_first_row ==
    /\ In("get_latest_fundamental_and_price", "begin")
    /\ frame' =
         IF frame.env.fund.raises
         THEN Propagates(Makes(frame, "get_market_fundamental_by_date", Window))
         ELSE IF frame.env.fund.table = << >>
         THEN Return(Makes(frame, "get_market_fundamental_by_date", Window),
                     <<Absent, Absent, Absent>>)
         ELSE [Makes(frame, "get_market_fundamental_by_date", Window) EXCEPT
                 !.recent_row = <<frame.env.fund.table[1]>>,
                 !.found_date = strftime_dashed(frame.env.fund.table[1].date),
                 !.dstr = remove_dashes(strftime_dashed(frame.env.fund.table[1].date)),
                 !.pc = "_get_ohlcv_by_date"]
    /\ UNCHANGED <<mode, task, loop>>

\* The fundamentals query with the price of the end of the window looked
\* up when the table is empty.
get_latest_fundamental_and_price_price_anyway ==
    /\ In("get_latest_fundamental_and_price", "begin")
    /\ frame' =
         IF frame.env.fund.raises
         THEN Propagates(Makes(frame, "get_market_fundamental_by_date", Window))
         ELSE IF frame.env.fund.table = << >>
         THEN [Makes(frame, "get_market_fundamental_by_date", Window) EXCEPT
                 !.dstr = Window[2],
                 !.pc = "_get_ohlcv_by_date"]
         ELSE [Makes(frame, "get_market_fundamental_by_date", Window) EXCEPT
                 !.recent_row = <<frame.env.fund.table[Len(frame.env.fund.table)]>>,
                 !.found_date = strftime_dashed(
                     frame.env.fund.table[Len(frame.env.fund.table)].date),
                 !.dstr = remove_dashes(strftime_dashed(
                     frame.env.fund.table[Len(frame.env.fund.table)].date)),
                 !.pc = "_get_ohlcv_by_date"]
    /\ UNCHANGED <<mode, task, loop>>

\* df_fund = stock.get_market_fundamental_by_date(...); if df_fund.empty:
\* return None, None, None; recent_row = df_fund.iloc[-1], found_date, dstr.
get_latest_fundamental_and_price_begin ==
    /\ In("get_latest_fundamental_and_price", "begin")
    /\ frame' =
         IF frame.env.fund.raises
         THEN Propagates(Makes(frame, "get_market_fundamental_by_date", Window))
         ELSE IF frame.env.fund.table = << >>
         THEN Return(Makes(frame, "get_market_fundamental_by_date", Window),
                     <<Absent, Absent, Absent>>)
         ELSE [Makes(frame, "get_market_fundamental_by_date", Window) EXCEPT
                 !.recent_row = <<frame.env.fund.table[Len(frame.env.fund.table)]>>,
                 !.found_date = strftime_dashed(
                     frame.env.fund.table[Len(frame.env.fund.table)].date),
                 !.dstr = remove_dashes(strftime_dashed(
                     frame.env.fund.table[Len(frame.env.fund.table)].date)),
                 !.pc = "_get_ohlcv_by_date"]
    /\ UNCHANGED <<mode, task, loop>>

\* The return with an empty price table taken as no data at all.
get_latest_fundamental_and_price_return_needs_price(fr, df_price) ==
    IF df_price = << >> THEN Return(fr, <<Absent, Absent, Absent>>)
    ELSE Return(fr, <<fr.recent_row, fr.found_date, df_price[1].close>>)

\* price = None if df_price.empty else df_price.iloc[0].get("종가", None);
\* return recent_row, found_date, price
get_latest_fundamental_and_price_return(fr, df_price) ==
    Return(fr, <<fr.recent_row, fr.found_date,
                 IF df_price = << >> THEN Absent ELSE df_price[1].close>>)

\* try: return stock.get_market_ohlcv(fromdate, todate, ticker)
get_ohlcv_by_date_try ==
    /\ In("get_latest_fundamental_and_price", "_get_ohlcv_by_date")
    /\ frame' =
         IF frame.env.ohlcv.raises
         THEN [Makes(frame, "get_market_ohlcv", <<frame.dstr, frame.dstr>>)
                  EXCEPT !.pc = "_get_ohlcv_by_date_except"]
         ELSE get_latest_fundamental_and_price_return(
                  Makes(frame, "get_market_ohlcv", <<frame.dstr, frame.dstr>>),
                  frame.env.ohlcv.table)
    /\ UNCHANGED <<mode, task, loop>>

\* except Exception: return stock.get_market_ohlcv_by_date(...)
get_ohlcv_by_date_except ==
    /\ In("get_latest_fundamental_and_price", "_get_ohlcv_by_date_except")
    /\ frame' =
         IF frame.env.ohlcv_by_date.raises
         THEN Propagates(
                  Makes(frame, "get_market_ohlcv_by_date", <<frame.dstr, frame.dstr>>))
         ELSE get_latest_fundamental_and_price_return(
                  Makes(frame, "get_market_ohlcv_by_date", <<frame.dstr, frame.dstr>>),
                  frame.env.ohlcv_by_date.table)
    /\ UNCHANGED <<mode, task, loop>>

(***************************************************************************)
(* get_krx_real_data(stock_name), _safe_num(val) and _fmt_pct(val): the    *)
(* call and its result.                                                    *)
(***************************************************************************)
StockNames == { <<"A", "B", "C">>, <<"D", "E">>, <<"F", "G">>, <<"A", "B", "D">> }

FetchKrxEnvs ==
    [ kospi : {"ok", Raise}, kosdaq : {"ok", Raise},
      fund : {Raises} \cup {Returns(tb) : tb \in {<< >>, <<Row0>>, <<Row1, Row2>>}},
      ohlcv : {Raises} \cup {Returns(tb) : tb \in FetchPriceTables},
      ohlcv_by_date : {Raises} \cup {Returns(tb) : tb \in PriceTables} ]

get_krx_real_data_frames ==
    { [fn |-> "get_krx_real_data", pc |-> "begin", arg |-> n, env |-> e,
       ret |-> KrxResult(None, NoText, << >>)]
      : n \in StockNames, e \in FetchKrxEnvs }

get_krx_real_data_call ==
    /\ In("get_krx_real_data", "begin")
    /\ frame' = Return(frame, get_krx_real_data(frame.arg, frame.env))
    /\ UNCHANGED <<mode, task, loop>>

_fmt_pct_frames ==
    { [fn |-> "_fmt_pct", pc |-> "begin", arg |-> v, s |-> << >>, ret |-> << >>]
      : v \in Vals }

_fmt_pct_call ==
    /\ In("_fmt_pct", "begin")
    /\ frame' = Return([frame EXCEPT !.s = _safe_num(frame.arg)],
                       _fmt_pct(frame.arg))
    /\ UNCHANGED <<mode, task, loop>>

(***************************************************************************)
(* make_daily_chart_image(ticker)                                          *)
(***************************************************************************)
make_daily_chart_image_frames ==
    { [fn |-> "make_daily_chart_image", pc |-> "begin", arg |-> "K1",
       env |-> e, calls |-> << >>, ret |-> None]
      : e \in ChartEnvs }

\* The price query with its exception leaving the function.
make_daily_chart_image_begin_no_try ==
    /\ In("make_daily_chart_image", "begin")
    /\ frame' =
         IF frame.env.ohlcv = Raise
         THEN Propagates(Makes(frame, "get_market_ohlcv_by_date", "K1"))
         ELSE IF frame.env.ohlcv = "empty"
         THEN Return(Makes(frame, "get_market_ohlcv_by_date", "K1"), None)
         ELSE [Makes(frame, "get_market_ohlcv_by_date", "K1") EXCEPT !.pc = "candle"]
    /\ UNCHANGED <<mode, task, loop>>

\* df = stock.get_market_ohlcv_by_date(...); if df.empty: return None;
\* the outer except returns None.
make_daily_chart_image_begin ==
    /\ In("make_daily_chart_image", "begin")
    /\ frame' =
         IF frame.env.ohlcv = Raise
         THEN Return(Makes(frame, "get_market_ohlcv_by_date", "K1"), None)
         ELSE IF frame.env.ohlcv = "empty"
         THEN Return(Makes(frame, "get_market_ohlcv_by_date", "K1"), None)
         ELSE [Makes(frame, "get_market_ohlcv_by_date", "K1") EXCEPT !.pc = "candle"]
    /\ UNCHANGED <<mode, task, loop>>

\* try: import mplfinance; mpf.plot(type="candle"); return buf.getvalue()
make_daily_chart_image_candle ==
    /\ In("make_daily_chart_image", "candle")
    /\ frame' =
         IF frame.env.candle
         THEN Return(Makes(frame, "mpf.plot", "candle"), "png")
         ELSE [Makes(frame, "mpf.plot", "candle") EXCEPT !.pc = "line"]
    /\ UNCHANGED <<mode, task, loop>>

\* except Exception: plt.plot of the closes; return buf.getvalue(); the
\* outer except returns None.
make_daily_chart_image_line ==
    /\ In("make_daily_chart_image", "line")
    /\ frame' =
         IF frame.env.line
         THEN Return(Makes(frame, "plt.plot", "line"), "png")
         ELSE Return(Makes(frame, "plt.plot", "line"), None)
    /\ UNCHANGED <<mode, task, loop>>

(***************************************************************************)
(* get_marketmap_element_screenshot(market)                                *)
(***************************************************************************)
\* The selectors tried, of the eleven of MARKETMAP_SELECTORS, and the
\* canvas elements of the page at most.
NumSelectors == 3
MaxCanvases == 2

\* The least width and height of the element of a selector.
MinWidth == 300
MinHeight == 200

\* What the page answers for an element: the call raises, wait_for times
\* out, there is no such element, no bounding box, or a box.
Element(state, width, height) == [state |-> state, width |-> width, height |-> height]
Box(width, height) == Element("box", width, height)

SelectorAnswers ==
    { Element("absent", 0, 0), Element("error", 0, 0), Element("timeout", 0, 0),
      Element("no_box", 0, 0), Box(MinWidth - 1, 600), Box(800, MinHeight - 1),
      Box(MinWidth, MinHeight) }

CanvasAnswers ==
    { Element("error", 0, 0), Element("no_box", 0, 0), Box(0, 100),
      Box(20, 20), Box(10, 40), Box(30, 30) }

SeqsUpTo(S, n) == UNION {[1..k -> S] : k \in 0..n}

\* Every page with a working browser, and the failures of the import, of
\* the page load and of the capture on two pages.
PageEnvs ==
    [ playwright : {"ok"}, page : {"ok"},
      selectors : [1..NumSelectors -> SelectorAnswers],
      canvases : SeqsUpTo(CanvasAnswers, MaxCanvases),
      screenshot : {"ok"} ]
    \cup
    [ playwright : {"ok", Raise}, page : {"ok", Raise},
      selectors : { [i \in 1..NumSelectors |-> Box(MinWidth, MinHeight)],
                    [i \in 1..NumSelectors |-> Element("absent", 0, 0)] },
      canvases : {<< >>, <<Box(20, 20)>>},
      screenshot : {"ok", Raise} ]

\* No element chosen, the element of a selector, a canvas.
NoTarget == [kind |-> None, index |-> 0]
Target(kind, index) == [kind |-> kind, index |-> index]

\* The result: the JPEG of the target, or None.
Shot(img, target) == [img |-> img, target |-> target]

get_marketmap_element_screenshot_frames ==
    { [fn |-> "get_marketmap_element_screenshot", pc |-> "begin",
       arg |-> m, env |-> e, i |-> 0, target |-> NoTarget,
       best_i |-> 0, best_area |-> 0, calls |-> << >>,
       ret |-> Shot(None, NoTarget)]
      : m \in {"KOSPI"}, e \in PageEnvs }

\* try: from playwright.async_api import ...; except: return None
get_marketmap_element_screenshot_begin ==
    /\ In("get_marketmap_element_screenshot", "begin")
    /\ frame' =
         IF frame.env.playwright = Raise
         THEN Return(frame, Shot(None, NoTarget))
         ELSE [frame EXCEPT !.pc = "goto"]
    /\ UNCHANGED <<mode, task, loop>>

\* The browser, the page, page.goto(url); the outer except returns None.
get_marketmap_element_screenshot_goto ==
    /\ In("get_marketmap_element_screenshot", "goto")
    /\ frame' =
         IF frame.env.page = Raise
         THEN Return(Makes(frame, "page.goto", 0), Shot(None, NoTarget))
         ELSE [Makes(frame, "page.goto", 0) EXCEPT !.pc = "for_sel", !.i = 1]
    /\ UNCHANGED <<mode, task, loop>>

\* The box of a selector is large enough.
LargeEnough(box) == box.width >= MinWidth /\ box.height >= MinHeight

\* One turn of "for sel in MARKETMAP_SELECTORS" with any box accepted.
get_marketmap_element_screenshot_for_sel_any_box ==
    /\ In("get_marketmap_element_screenshot", "for_sel")
    /\ frame' =
         IF frame.i > NumSelectors THEN [frame EXCEPT !.pc = "canvases"]
         ELSE IF frame.env.selectors[frame.i].state = "box"
         THEN [Makes(frame, "page.locator", frame.i) EXCEPT
                 !.target = Target("selector", frame.i), !.pc = "screenshot"]
         ELSE [Makes(frame, "page.locator", frame.i) EXCEPT !.i = @ + 1]
    /\ UNCHANGED <<mode, task, loop>>

\* One turn of "for sel in MARKETMAP_SELECTORS": count, wait_for visible,
\* bounding_box; the first large enough box is the target, a timeout or
\* an exception goes on to the next selector.
get_marketmap_element_screenshot_for_sel ==
    /\ In("get_marketmap_element_screenshot", "for_sel")
    /\ frame' =
         IF frame.i > NumSelectors THEN [frame EXCEPT !.pc = "canvases"]
         ELSE IF /\ frame.env.selectors[frame.i].state = "box"
                 /\ LargeEnough(frame.env.selectors[frame.i])
         THEN [Makes(frame, "page.locator", frame.i) EXCEPT
                 !.target = Target("selector", frame.i), !.pc = "screenshot"]
         ELSE [Makes(frame, "page.locator", frame.i) EXCEPT !.i = @ + 1]
    /\ UNCHANGED <<mode, task, loop>>

\* if target is None: canvases = page.locator("canvas"); n = count()
get_marketmap_element_screenshot_canvases ==
    /\ In("get_marketmap_element_screenshot", "canvases")
    /\ frame' = [Makes(frame, "page.locator.canvas", 0) EXCEPT
                    !.pc = "for_canvas", !.i = 1, !.best_i = 0, !.best_area = 0]
    /\ UNCHANGED <<mode, task, loop>>

Area(box) == box.width * box.height

\* One turn of "for i in range(n)" (canvases counted from 1 here, best_i 0
\* for none), and after the last one the largest canvas or return None.
get_marketmap_element_screenshot_for_canvas ==
    /\ In("get_marketmap_element_screenshot", "for_canvas")
    /\ frame' =
         IF frame.i > Len(frame.env.canvases)
         THEN IF frame.best_i >= 1 /\ frame.best_area > 0
              THEN [frame EXCEPT !.target = Target("canvas", frame.best_i),
                                 !.pc = "screenshot"]
              ELSE Return(frame, Shot(None, NoTarget))
         ELSE IF /\ frame.env.canvases[frame.i].state = "box"
                 /\ Area(frame.env.canvases[frame.i]) > frame.best_area
         THEN [Makes(frame, "canvases.nth", frame.i) EXCEPT
                 !.best_area = Area(frame.env.canvases[frame.i]),
                 !.best_i = frame.i, !.i = @ + 1]
         ELSE [Makes(frame, "canvases.nth", frame.i) EXCEPT !.i = @ + 1]
    /\ UNCHANGED <<mode, task, loop>>

\* img = await target.screenshot(type="jpeg"); the outer except returns
\* None.
get_marketmap_element_screenshot_screenshot ==
    /\ In("get_marketmap_element_screenshot", "screenshot")
    /\ frame' =
         IF frame.env.screenshot = Raise
         THEN Return(Makes(frame, "target.screenshot", frame.target.index),
                     Shot(None, NoTarget))
         ELSE Return(Makes(frame, "target.screenshot", frame.target.index),
                     Shot("jpeg", frame.target))
    /\ UNCHANGED <<mode, task, loop>>

(***************************************************************************)
(* One function call, followed to its return.                              *)
(***************************************************************************)
FnInit ==
    /\ Handlers_idle
    /\ frame \in find_ticker_code_frames
                 \cup get_latest_fundamental_and_price_frames
                 \cup get_krx_real_data_frames
                 \cup _fmt_pct_frames
                 \cup make_daily_chart_image_frames
                 \cup get_marketmap_element_screenshot_frames

FnNext ==
    \/ find_ticker_code_begin
    \/ find_ticker_code_kospi_list
    \/ find_ticker_code_kosdaq_list
    \/ find_ticker_code_for_kospi
    \/ find_ticker_code_for_kosdaq
    \/ find_ticker_code_candidates
    \/ get_latest_fundamental_and_price_begin
    \/ get_ohlcv_by_date_try
    \/ get_ohlcv_by_date_except
    \/ get_krx_real_data_call
    \/ _fmt_pct_call
    \/ make_daily_chart_image_begin
    \/ make_daily_chart_image_candle
    \/ make_daily_chart_image_line
    \/ get_marketmap_element_screenshot_begin
    \/ get_marketmap_element_screenshot_goto
    \/ get_marketmap_element_screenshot_for_sel
    \/ get_marketmap_element_screenshot_canvases
    \/ get_marketmap_element_screenshot_for_canvas
    \/ get_marketmap_element_screenshot_screenshot

FnSpec == FnInit /\ [][FnNext]_vars

(***************************************************************************)
(* What a step does to a handler                                           *)
(***************************************************************************)
Acts(t) == task'[t] # task[t]

\* The handler of an update starts, returns, is ended by an exception.
Begins(t) == task[t].pc \in Ended /\ task'[t].pc \notin Ended
Finishes(t) == task[t].pc \notin Ended /\ task'[t].pc = "done"
Aborts(t) == task[t].pc \notin Ended /\ task'[t].pc = "failed"

\* The handler that takes the step, with its update.
Actor(t) == IF task[t].pc \in Ended THEN task'[t] ELSE task[t]

\* Everything the handler has sent when its last awaited call returns.
OutAtReturn(t) == Delivered(task[t]).out

Types(out) == [i \in DOMAIN out |-> out[i].type]

Range(seq) == {seq[i] : i \in DOMAIN seq}

Count(seq, x) == Cardinality({i \in DOMAIN seq : seq[i] = x})

IsPrefix(s, full) == Len(s) <= Len(full) /\ s = SubSeq(full, 1, Len(s))

\* The router's idle: any mode but awaiting_analysis_input.
Idle(m) == m # "btn_analysis"

(***************************************************************************)
(* C1: a text handled in mode awaiting_analysis_input, once its progress   *)
(* reply is out, has run get_krx_real_data exactly once when its handling  *)
(* ends, by return or by exception, and the mode of its sender is then     *)
(* idle.                                                                   *)
(***************************************************************************)
C1_AnalysisOnceThenIdle ==
    [][\A t \in Tasks :
          ( /\ task[t].kind = "text"
            /\ task[t].mode = "btn_analysis"
            /\ task[t].out # << >>
            /\ Finishes(t) \/ Aborts(t) )
          => /\ Count(task[t].calls, "get_krx_real_data") = 1
             /\ Idle(mode'[task[t].user])]_vars

(***************************************************************************)
(* C2: a text handled while the mode of its sender is idle (any value but  *)
(* awaiting_analysis_input) calls no component of the pipeline and sends   *)
(* nothing but the Home Menu, once: it starts at the awaited menu with     *)
(* nothing called and nothing sent, and its only step is the outcome of    *)
(* that send.                                                              *)
(***************************************************************************)
C2_IdleTextOnlyShowsMenu ==
    [][\A t \in Tasks :
          /\ ( /\ Begins(t)
               /\ task'[t].kind = "text"
               /\ Idle(ModeOf(task'[t].user, task'[t].chat)) )
             => /\ task'[t].pc = "send_home_menu"
                /\ task'[t].calls = << >>
                /\ task'[t].out = << >>
                /\ loop' = 0
          /\ ( /\ task[t].kind = "text"
               /\ Idle(task[t].mode)
               /\ Acts(t) )
             => /\ task[t].calls = << >>
                /\ Finishes(t) \/ Aborts(t)
                /\ Finishes(t) => OutAtReturn(t) = <<Sent("HomeMenu", NoText)>>
                /\ Aborts(t) => task[t].out = << >>]_vars

\* A text is at the menu because the mode it read was 'btn_market'.
C2_Witness ==
    \E t \in Tasks :
       /\ task[t].kind = "text"
       /\ task[t].mode = "btn_market"
       /\ task[t].pc = "send_home_menu"
       /\ task[t].calls = << >>

(***************************************************************************)
(* C3: whenever a handler calls send_home_menu, the mode of its user is    *)
(* idle at that call, whatever it was before.                              *)
(***************************************************************************)
C3_HomeMenuResetsMode ==
    [][\A t \in Tasks :
          (task'[t].pc = "send_home_menu" /\ task[t].pc # "send_home_menu")
          => Idle(mode'[task'[t].user])]_vars

(***************************************************************************)
(* C4: the stored mode of every user is one of two values, idle (None) or  *)
(* awaiting_analysis_input ('btn_analysis').                               *)
(***************************************************************************)
C4_TwoModeValues == \A u \in Users : mode[u] \in {None, "btn_analysis"}

(***************************************************************************)
(* C4, amended: the stored mode of every user is one of three values,      *)
(* None, 'btn_analysis' or 'btn_market'.                                   *)
(***************************************************************************)
C4_ThreeModeValues ==
    \A u \in Users : mode[u] \in {None, "btn_analysis", "btn_market"}

C4_Witness == \E u \in Users : mode[u] = "btn_market"

(***************************************************************************)
(* C5: the step that starts the start handler writes the idle mode and     *)
(* leaves the handler at the awaited send of the menu with nothing sent    *)
(* yet; the outcome of that send, the menu or an exception, leaves the     *)
(* modes as they are.                                                      *)
(***************************************************************************)
C5_StartResetsThenSendsMenu ==
    [][\A t \in Tasks :
          /\ (Begins(t) /\ task'[t].kind = "start")
             => /\ mode'[task'[t].user] = None
                /\ task'[t].pc = "send_home_menu"
                /\ task'[t].out = << >>
          /\ (task[t].kind = "start" /\ Acts(t))
             => /\ mode' = mode
                /\ Finishes(t) \/ Aborts(t)
                /\ Finishes(t) => OutAtReturn(t) = <<Sent("HomeMenu", NoText)>>]_vars

\* A start handler awaits the menu, the mode of its user is idle, and a
\* handler of another update of the same user is under way.
C5_Witness ==
    \E t, o \in Tasks :
       /\ task[t].kind = "start"
       /\ task[t].pc = "send_home_menu"
       /\ mode[task[t].user] = None
       /\ o # t
       /\ task[o].kind = "text"
       /\ task[o].user = task[t].user
       /\ task[o].mode = "btn_analysis"

(***************************************************************************)
(* C6: a text handled in analysis mode whose name resolved to a ticker     *)
(* with data sends, after the progress reply that the acknowledgement      *)
(* replaces, the acknowledgement with the code and its market, then the    *)
(* chart or the chart-failed message, then the report, then the Home Menu, *)
(* each once and in this order, and calls the resolver, the fetcher, the   *)
(* formatter, the chart renderer and the report composer in this order,    *)
(* the renderer after the acknowledgement and the composer after the chart *)
(* step; a handling that returns has sent all of them.                     *)
(***************************************************************************)
WithData(tk) ==
    tk.kind = "text" /\ tk.code # None /\ tk.stock_info.kind = "stock_info"

Orders ==
    { <<"Progress", "Ack", "Chart", "Report", "HomeMenu">>,
      <<"Progress", "Ack", "ChartFailed", "Report", "HomeMenu">> }

StepsInOrder ==
    <<"get_krx_real_data", "resolver", "fetcher", "formatter", "chart",
      "composer">>

Listing(market) == IF market = "KOSPI" THEN tickers_kospi ELSE tickers_kosdaq

C6_AnalysisMessagesInOrder ==
    [][\A t \in Tasks :
          WithData(task[t])
          => /\ \E o \in Orders : IsPrefix(Types(task[t].out), o)
             /\ IsPrefix(task[t].calls, StepsInOrder)
             /\ Len(task[t].calls) >= 4
             /\ "chart" \in Range(task[t].calls) <=> Len(task[t].out) >= 2
             /\ "composer" \in Range(task[t].calls) <=> Len(task[t].out) >= 3
             /\ Len(task[t].out) >= 2
                => /\ task[t].out[2].text = task[t].stock_info
                   /\ task[t].out[2].text.code = task[t].code
                   /\ task[t].out[2].text.market \in {"KOSPI", "KOSDAQ"}
                   /\ task[t].code \in Range(Listing(task[t].out[2].text.market))
             /\ Finishes(t)
                => /\ Types(OutAtReturn(t)) \in Orders
                   /\ task[t].calls = StepsInOrder]_vars

\* The report of a request with data is out, after the chart-failed
\* message, and the menu is awaited.
C6_Witness ==
    \E t \in Tasks :
       /\ WithData(task[t])
       /\ task[t].pc = "send_home_menu"
       /\ Types(task[t].out) = <<"Progress", "Ack", "ChartFailed", "Report">>
       /\ task[t].calls = StepsInOrder

(***************************************************************************)
(* C7: a text whose name resolved to a ticker for which the fundamentals   *)
(* query returned no rows gets neither the chart renderer nor the report   *)
(* composer called.                                                        *)
(***************************************************************************)
C7_NoDataHaltsPipeline ==
    \A t \in Tasks :
       ( /\ task[t].kind = "text"
         /\ task[t].stock_info = Message("no_recent_data", NoNames) )
       => Range(task[t].calls) \cap {"chart", "composer"} = {}

(***************************************************************************)
(* C8: no step of an image stage, the rendering of the chart or the        *)
(* snapshot of the map or the sending of either, ends its handler by an    *)
(* exception.                                                              *)
(***************************************************************************)
C8_ImageStageNeverAborts ==
    [][\A t \in Tasks :
          task[t].pc \in {"chart", "chart_photo", "snapshot", "map_photo"}
          => ~Aborts(t)]_vars

(***************************************************************************)
(* C9: while a handler is in a long-running blocking call (the market-data *)
(* queries of the analysis, the index close, the chart, the model          *)
(* inference, the browser), every free slot of the dispatcher can start    *)
(* the handler of another update.                                          *)
(***************************************************************************)
C9_BlockingCallsOffTheLoop ==
    \A t \in Tasks :
       task[t].pc \in {"krx_call", "index_call", "chart", "report_genai",
                       "market_genai", "snapshot"}
       => \A o \in Tasks : task[o].pc \in Ended => Dispatchable(o)

Returned(fn) == In(fn, "return")

\* The code of the first ticker of the listing with that name, or None.
Listed(tickers, name) == ScanExact(tickers, name)

ListingsAnswer(env) == env.kospi = "ok" /\ env.kosdaq = "ok"

\* The call results agree with find_ticker_code as get_krx_real_data uses
\* it.
find_ticker_code_agrees ==
    Returned("find_ticker_code")
    => frame.ret = find_ticker_code(or_empty(frame.arg), frame.env)

(***************************************************************************)
(* C11: when both listings answer and some listed ticker has exactly the   *)
(* stripped argument as its name, find_ticker_code returns a code with     *)
(* that name, the market that lists it and no hint, never a suggestion;    *)
(* when KOSPI lists the name the code and the market are those of KOSPI,   *)
(* also when KOSDAQ lists the name too.                                    *)
(***************************************************************************)
C11_ExactMatchPrimaryFirst ==
    ( /\ Returned("find_ticker_code")
      /\ ListingsAnswer(frame.env)
      /\ \/ Listed(tickers_kospi, strip(or_empty(frame.arg))) # None
         \/ Listed(tickers_kosdaq, strip(or_empty(frame.arg))) # None )
    => /\ frame.ret[1] # None
       /\ get_market_ticker_name(frame.ret[1]) = strip(or_empty(frame.arg))
       /\ frame.ret[2] \in {"KOSPI", "KOSDAQ"}
       /\ frame.ret[1] \in Range(Listing(frame.ret[2]))
       /\ frame.ret[3] = NoHint
       /\ Listed(tickers_kospi, strip(or_empty(frame.arg))) # None
          => /\ frame.ret[2] = "KOSPI"
             /\ frame.ret[1] = Listed(tickers_kospi, strip(or_empty(frame.arg)))

\* The name of both listings, with white space after it, was resolved.
C11_Witness ==
    /\ Returned("find_ticker_code")
    /\ frame.arg = << <<"D", "E", SP>> >>
    /\ frame.ret = <<"K2", "KOSPI", NoHint>>
    /\ Listed(tickers_kosdaq, <<"D", "E">>) = "Q1"

(***************************************************************************)
(* C12: for an argument that is None, empty or only white space,           *)
(* find_ticker_code makes no call to the backend and returns no code, no   *)
(* market and the 'enter an exact name' error.                             *)
(***************************************************************************)
C12_EmptyNameNoLookup ==
    (frame.fn = "find_ticker_code" /\ strip(or_empty(frame.arg)) = << >>)
    => /\ frame.calls = << >>
       /\ frame.pc \in {"begin", "return"}
       /\ frame.pc = "return"
          => frame.ret = <<None, None, Hint("enter_exact_name", NoNames)>>

\* A name of white space only was answered.
C12_Witness ==
    /\ Returned("find_ticker_code")
    /\ frame.arg = << <<SP, SP>> >>
    /\ frame.calls = << >>

(***************************************************************************)
(* C13: find_ticker_code asks for the KOSDAQ listing only after its scan   *)
(* of KOSPI found no ticker of that name, and when KOSPI answers and lists *)
(* the name, its code is returned whatever the KOSDAQ query does.          *)
(***************************************************************************)
C13_SecondaryOnlyAfterPrimaryMiss ==
    frame.fn = "find_ticker_code"
    => /\ Call("get_market_ticker_list", "KOSDAQ") \in Range(frame.calls)
          => Listed(tickers_kospi, frame.stock_name) = None
       /\ ( /\ frame.pc = "return"
            /\ frame.env.kospi = "ok"
            /\ Listed(tickers_kospi, strip(or_empty(frame.arg))) # None )
          => frame.ret[1] = Listed(tickers_kospi, strip(or_empty(frame.arg)))

(***************************************************************************)
(* Claims about get_latest_fundamental_and_price and get_krx_real_data.    *)
(***************************************************************************)
\* The result agrees with get_latest_fundamental_and_price as
\* get_krx_real_data uses it.
get_latest_fundamental_and_price_agrees ==
    /\ Returned("get_latest_fundamental_and_price")
       => /\ ~get_latest_fundamental_and_price(frame.arg, frame.env).raised
          /\ frame.ret =
               << get_latest_fundamental_and_price(frame.arg, frame.env).row,
                  get_latest_fundamental_and_price(frame.arg, frame.env).found_date,
                  get_latest_fundamental_and_price(frame.arg, frame.env).price >>
    /\ In("get_latest_fundamental_and_price", "raise")
       => get_latest_fundamental_and_price(frame.arg, frame.env).raised

PriceApis == {"get_market_ohlcv", "get_market_ohlcv_by_date"}

PriceQueries(calls) == SelectSeq(calls, LAMBDA c : c.api \in PriceApis)

\* The name resolves: the listings answer and one of them has the name.
Resolves(name, env) == find_ticker_code(name, env)[1] # None

(***************************************************************************)
(* C14: when the fundamentals query returns an empty table,                *)
(* get_latest_fundamental_and_price makes no price query and returns       *)
(* (None, None, None), and get_krx_real_data, for a name that resolves,    *)
(* returns the code with the 'no recent data' message, not an error.       *)
(***************************************************************************)
C14_EmptyFundamentalsNoPriceQuery ==
    /\ ( /\ frame.fn = "get_latest_fundamental_and_price"
         /\ frame.env.fund = Returns(<< >>) )
       => /\ PriceQueries(frame.calls) = << >>
          /\ frame.pc \in {"begin", "return"}
          /\ frame.pc = "return"
             => /\ frame.ret = <<Absent, Absent, Absent>>
                /\ frame.calls = <<Call("get_market_fundamental_by_date", Window)>>
    /\ ( /\ Returned("get_krx_real_data")
         /\ Resolves(frame.arg, frame.env)
         /\ frame.env.fund = Returns(<< >>) )
       => /\ frame.ret.text = Message("no_recent_data", NoNames)
          /\ frame.ret.code = find_ticker_code(frame.arg, frame.env)[1]
          /\ frame.ret.steps = <<"resolver", "fetcher">>

\* get_krx_real_data returned for a listed name with no fundamentals while
\* the price queries would have raised.
C14_Witness ==
    /\ Returned("get_krx_real_data")
    /\ frame.arg = <<"F", "G">>
    /\ frame.env.fund = Returns(<< >>)
    /\ frame.env.ohlcv.raises /\ frame.env.ohlcv_by_date.raises
    /\ frame.ret.code = "Q2"

\* The price table that _get_ohlcv_by_date hands back, if it returns.
PriceAnswer(env) == _get_ohlcv_by_date(env)

(***************************************************************************)
(* C15: when the fundamentals table has rows and the price query of the    *)
(* date returns an empty table, get_latest_fundamental_and_price returns   *)
(* the latest row and its date with the price None, and get_krx_real_data, *)
(* for a name that resolves, returns the code with the data block of that  *)
(* date: per, pbr, eps, bps and div as the formatters give them from the   *)
(* row, the price shown as unavailable; not a message, not an error.       *)
(***************************************************************************)
C15_MissingPriceKeepsFundamentals ==
    /\ ( /\ Returned("get_latest_fundamental_and_price")
         /\ frame.env.fund.table # << >>
         /\ PriceAnswer(frame.env) = Returns(<< >>) )
       => /\ frame.ret[1] = <<frame.env.fund.table[Len(frame.env.fund.table)]>>
          /\ frame.ret[2] = strftime_dashed(frame.ret[1][1].date)
          /\ frame.ret[3] = Absent
    /\ ( /\ frame.fn = "get_latest_fundamental_and_price"
         /\ ~frame.env.fund.raises
         /\ frame.env.fund.table # << >>
         /\ PriceAnswer(frame.env) = Returns(<< >>) )
       => frame.pc # "raise"
    /\ ( /\ Returned("get_krx_real_data")
         /\ Resolves(frame.arg, frame.env)
         /\ ~frame.env.fund.raises
         /\ frame.env.fund.table # << >>
         /\ PriceAnswer(frame.env) = Returns(<< >>) )
       => /\ frame.ret.code = find_ticker_code(frame.arg, frame.env)[1]
          /\ frame.ret.text.kind = "stock_info"
          /\ frame.ret.text.price_s = "unavailable"
          /\ frame.ret.text.found_date =
               strftime_dashed(frame.env.fund.table[Len(frame.env.fund.table)].date)
          /\ \A f \in DOMAIN frame.ret.text.fields :
                frame.ret.text.fields[f] # << >>
          /\ frame.ret.text.fields.per =
               _safe_num(frame.env.fund.table[Len(frame.env.fund.table)].PER)
          /\ frame.ret.text.fields.div =
               _fmt_pct(frame.env.fund.table[Len(frame.env.fund.table)].DIV)
          /\ frame.ret.steps = <<"resolver", "fetcher", "formatter">>

\* The first price query raised, the second returned an empty table, and
\* the latest of three rows came back without a price.
C15_Witness ==
    /\ Returned("get_latest_fundamental_and_price")
    /\ frame.env.fund.table = <<Row0, Row1, Row2>>
    /\ frame.env.ohlcv.raises
    /\ frame.env.ohlcv_by_date = Returns(<< >>)
    /\ frame.ret = << <<Row2>>, <<2026, 11, 3>>, Absent >>

(***************************************************************************)
(* C16: for a fundamentals table with rows, the date that                  *)
(* get_latest_fundamental_and_price returns is the date of a row of the    *)
(* table, no row of the table has a later date, and every price query is   *)
(* made from that date to that date.                                       *)
(***************************************************************************)
C16_AsOfDateIsLatestRow ==
    ( /\ frame.fn = "get_latest_fundamental_and_price"
      /\ ~frame.env.fund.raises
      /\ frame.env.fund.table # << >>
      /\ frame.pc # "begin" )
    => /\ \E i \in DOMAIN frame.env.fund.table :
             /\ frame.found_date = strftime_dashed(frame.env.fund.table[i].date)
             /\ frame.recent_row = <<frame.env.fund.table[i]>>
             /\ \A j \in DOMAIN frame.env.fund.table :
                   frame.env.fund.table[j].date <= frame.env.fund.table[i].date
             /\ \A k \in DOMAIN PriceQueries(frame.calls) :
                   PriceQueries(frame.calls)[k].arg =
                      <<frame.env.fund.table[i].date, frame.env.fund.table[i].date>>
       /\ frame.pc = "return"
          => /\ frame.ret[2] = frame.found_date
             /\ frame.ret[1] = frame.recent_row
             /\ PriceQueries(frame.calls) # << >>

\* Both price queries were made for the date of the only row, a date of
\* the month before.
C16_Witness ==
    /\ Returned("get_latest_fundamental_and_price")
    /\ frame.env.fund.table = <<Row0>>
    /\ frame.ret[2] = <<2026, 10, 30>>
    /\ frame.calls = << Call("get_market_fundamental_by_date", Window),
                        Call("get_market_ohlcv", <<D0, D0>>),
                        Call("get_market_ohlcv_by_date", <<D0, D0>>) >>

(***************************************************************************)
(* C17: for None and for NaN, _safe_num returns the sentinel text and      *)
(* _fmt_pct returns the sentinel as it is, without a percent sign; for     *)
(* every other number _fmt_pct returns the text of _safe_num followed by   *)
(* one percent sign.                                                       *)
(***************************************************************************)
Numeric(val) == val.kind \in {"int", "float", "inf"}

C17_SentinelNeverGetsPercent ==
    Returned("_fmt_pct")
    => /\ frame.s = _safe_num(frame.arg)
       /\ frame.arg.kind \in {"none", "nan"}
          => /\ frame.s = NoInfo
             /\ frame.ret = NoInfo
       /\ Numeric(frame.arg)
          => /\ frame.s # NoInfo
             /\ "%" \notin Range(frame.s)
             /\ frame.ret = frame.s \o <<"%">>
             /\ Count(frame.ret, "%") = 1

\* NaN came back as the sentinel.
C17_Witness ==
    /\ Returned("_fmt_pct")
    /\ frame.arg = NaN
    /\ frame.ret = NoInfo

(***************************************************************************)
(* Claims about make_daily_chart_image and the market map.                 *)
(***************************************************************************)
\* The result agrees with make_daily_chart_image as handle_message uses
\* it.
make_daily_chart_image_agrees ==
    Returned("make_daily_chart_image")
    => frame.ret = make_daily_chart_image(frame.env)

ChartSteps ==
    << Call("get_market_ohlcv_by_date", "K1"), Call("mpf.plot", "candle"),
       Call("plt.plot", "line") >>

(***************************************************************************)
(* C18: make_daily_chart_image never raises and returns image bytes or     *)
(* None, whatever the price query and the two renderers do; it tries the   *)
(* candlestick renderer first and the line plot only after the candlestick *)
(* renderer failed, and it returns None exactly when the query raised, the *)
(* data is empty, or both renderers failed.                                *)
(***************************************************************************)
C18_ChartNeverRaises ==
    frame.fn = "make_daily_chart_image"
    => /\ frame.pc # "raise"
       /\ IsPrefix(frame.calls, ChartSteps)
       /\ Call("plt.plot", "line") \in Range(frame.calls)
          => /\ ~frame.env.candle
             /\ frame.calls[2] = Call("mpf.plot", "candle")
       /\ frame.pc = "return"
          => /\ frame.ret \in {"png", None}
             /\ frame.ret = None
                <=> \/ frame.env.ohlcv \in {Raise, "empty"}
                    \/ ~frame.env.candle /\ ~frame.env.line
             /\ frame.env.ohlcv = "data"
                => /\ Call("mpf.plot", "candle") \in Range(frame.calls)
                   /\ Call("plt.plot", "line") \in Range(frame.calls)
                      <=> ~frame.env.candle
             /\ frame.env.ohlcv # "data" => Len(frame.calls) = 1

\* Both renderers failed and None came back.
C18_Witness ==
    /\ Returned("make_daily_chart_image")
    /\ frame.calls = ChartSteps
    /\ ~frame.env.line
    /\ frame.ret = None

Qualifies(el) == el.state = "box" /\ el.width >= 300 /\ el.height >= 200

HasArea(el) == el.state = "box" /\ el.width * el.height > 0

LocatorCalls(calls) == SelectSeq(calls, LAMBDA c : c.api = "page.locator")

CanvasCalls(calls) ==
    SelectSeq(calls, LAMBDA c : c.api \in {"page.locator.canvas", "canvases.nth"})

(***************************************************************************)
(* C19: the element get_marketmap_element_screenshot captures is that of   *)
(* the first selector, in the order of the list, whose first element is    *)
(* visible with a box of at least 300 by 200; the selectors before it,     *)
(* absent, timed out, failed or too small, were tried in order and         *)
(* skipped, and no canvas was looked at.  Only when no selector qualifies  *)
(* is it the canvas of the largest area above zero, and with no such       *)
(* canvas nothing is captured and None is returned.                        *)
(***************************************************************************)
C19_FirstQualifyingSelector ==
    ( /\ frame.fn = "get_marketmap_element_screenshot"
      /\ frame.env.playwright = "ok" /\ frame.env.page = "ok" )
    => /\ LocatorCalls(frame.calls) =
             [k \in 1..Len(LocatorCalls(frame.calls)) |-> Call("page.locator", k)]
       /\ \A k \in 1..Len(LocatorCalls(frame.calls)) - 1 :
             ~Qualifies(frame.env.selectors[k])
       /\ frame.target.kind = "selector"
          => /\ Qualifies(frame.env.selectors[frame.target.index])
             /\ \A k \in 1..frame.target.index - 1 : ~Qualifies(frame.env.selectors[k])
             /\ CanvasCalls(frame.calls) = << >>
       /\ CanvasCalls(frame.calls) # << >>
          => /\ \A k \in 1..NumSelectors : ~Qualifies(frame.env.selectors[k])
             /\ Len(LocatorCalls(frame.calls)) = NumSelectors
       /\ frame.target.kind = "canvas"
          => /\ HasArea(frame.env.canvases[frame.target.index])
             /\ \A k \in DOMAIN frame.env.canvases :
                   frame.env.canvases[k].state = "box"
                   => Area(frame.env.canvases[k])
                        <= Area(frame.env.canvases[frame.target.index])
       /\ frame.pc \in {"screenshot", "return"}
          => /\ (\E k \in 1..NumSelectors : Qualifies(frame.env.selectors[k]))
                => frame.target.kind = "selector"
             /\ ( /\ \A k \in 1..NumSelectors : ~Qualifies(frame.env.selectors[k])
                  /\ \E k \in DOMAIN frame.env.canvases : HasArea(frame.env.canvases[k]) )
                => frame.target.kind = "canvas"
             /\ ( /\ \A k \in 1..NumSelectors : ~Qualifies(frame.env.selectors[k])
                  /\ \A k \in DOMAIN frame.env.canvases : ~HasArea(frame.env.canvases[k]) )
                => /\ frame.target = NoTarget
                   /\ frame.pc = "return"
                   /\ frame.ret = Shot(None, NoTarget)
                   /\ Call("target.screenshot", 0) \notin Range(frame.calls)
       /\ frame.pc = "return"
          => \/ frame.ret = Shot("jpeg", frame.target) /\ frame.target # NoTarget
             \/ frame.ret = Shot(None, NoTarget)

\* A selector that timed out and one that was too narrow were skipped and
\* the third was captured.
C19_Witness ==
    /\ Returned("get_marketmap_element_screenshot")
    /\ frame.env.selectors[1].state = "timeout"
    /\ frame.env.selectors[2] = Box(299, 600)
    /\ frame.ret = Shot("jpeg", Target("selector", 3))
    /\ frame.env.canvases # << >>

(***************************************************************************)
(* C20: in the handling of a text, the chart renderer and the report       *)
(* composer are called only after get_krx_real_data returned a code for    *)
(* that text.  When it returned no code (empty name, no exact match, an    *)
(* error of the backend), the handler only edits the error or hint text    *)
(* into its progress reply and returns: no chart, no report, no Home Menu. *)
(***************************************************************************)
ResolutionFailures ==
    { "enter_exact_name", "ticker_search_error", "did_you_mean",
      "enter_registered_name", "krx_connection_error" }

C20_NoCodeOnlyErrorEdit ==
    [][\A t \in Tasks :
          task[t].kind = "text"
          => /\ Range(task[t].calls) \cap {"chart", "composer"} # {}
                => /\ task[t].code # None
                   /\ IsPrefix(<<"get_krx_real_data", "resolver", "fetcher">>,
                               task[t].calls)
             /\ (task[t].pc = "krx_call" /\ Acts(t) /\ task'[t].code = None)
                => /\ task'[t].pc = "error_edit"
                   /\ task'[t].stock_info.kind = "message"
                   /\ task'[t].stock_info.msg \in ResolutionFailures
                   /\ task'[t].out = <<Sent("Progress", NoText)>>
             /\ ( /\ "resolver" \in Range(task[t].calls)
                  /\ task[t].code = None )
                => /\ task[t].pc = "error_edit"
                   /\ Range(task[t].calls) \cap {"chart", "composer"} = {}
                   /\ Acts(t) => Finishes(t) \/ Aborts(t)
                   /\ Finishes(t)
                      => OutAtReturn(t) = << Sent("Progress", NoText),
                                             Sent("ErrorText", task[t].stock_info) >>]_vars

\* The hint with the close names is about to be edited into the reply.
C20_Witness ==
    \E t \in Tasks :
       /\ task[t].kind = "text"
       /\ task[t].pc = "error_edit"
       /\ task[t].code = None
       /\ task[t].stock_info.msg = "did_you_mean"
       /\ task[t].stock_info.names # << >>

====
